---- MODULE Spec2Model ----
(***************************************************************************)
(* Meal Receipts Tracker API (src/main.py): a FastAPI layer over a remote  *)
(* store with two tables, receipts and advances.                           *)
(*                                                                         *)
(* Text is a sequence of one-character strings, so that lowercasing,       *)
(* strptime, isoformat and the CSV body are computed character by          *)
(* character.  Python's None / JSON null is the value Null.  Amounts are   *)
(* fixed-point numbers counted in units of 1/AmountUnit.                   *)
(***************************************************************************)
EXTENDS Integers, Sequences, FiniteSets, TLC

VARIABLES
    supabase_client,  \* TRUE when create_client succeeded at start-up
    receipts,         \* the store's receipts table, in insertion order
    advances,         \* the store's advances table, in insertion order
    req,              \* the request being answered
    calls,            \* the store operations issued while answering req
    resp              \* the response to req

vars == <<supabase_client, receipts, advances, req, calls, resp>>

----------------------------------------------------------------------------
(* Bounds of the model *)

MaxReceipts == 2
MaxAdvances == 1
MaxAmountSteps == 1

(* Program constants *)

MINYEAR == 1
MAXYEAR == 9999
\* amounts are counted in units of 0.002: five units to the hundredth
AmountUnit == 5 * 100

----------------------------------------------------------------------------
(* Text *)

Null == <<"NULL">>

Digits == <<"0", "1", "2", "3", "4", "5", "6", "7", "8", "9">>

IsDigit(c) == \E i \in 1..10 : Digits[i] = c

DigitVal(c) == (CHOOSE i \in 1..10 : Digits[i] = c) - 1

Upper == <<"L", "U", "N", "C", "H", "D", "I", "E", "R">>
Lower == <<"l", "u", "n", "c", "h", "d", "i", "e", "r">>

\* str.lower() on the letters the model's meal types are written with
LowerChar(c) ==
    IF \E i \in 1..Len(Upper) : Upper[i] = c
    THEN Lower[CHOOSE i \in 1..Len(Upper) : Upper[i] = c]
    ELSE c

StrLower(s) == [i \in 1..Len(s) |-> LowerChar(s[i])]

RECURSIVE NatDigits(_)
NatDigits(n) ==
    IF n < 10 THEN <<Digits[n + 1]>>
    ELSE NatDigits(n \div 10) \o <<Digits[(n % 10) + 1]>>

RECURSIVE ZeroPad(_, _)
ZeroPad(s, width) == IF Len(s) >= width THEN s ELSE ZeroPad(<<"0">> \o s, width)

\* sep.join(parts)
RECURSIVE Join(_, _)
Join(parts, sep) ==
    IF parts = <<>> THEN <<>>
    ELSE IF Len(parts) = 1 THEN parts[1]
    ELSE parts[1] \o sep \o Join(Tail(parts), sep)

----------------------------------------------------------------------------
(* datetime.date *)

Date(y, m, d) == [year |-> y, month |-> m, day |-> d]

IsLeap(y) == (y % 4 = 0) /\ ((y % 100 # 0) \/ (y % 400 = 0))

DaysInMonth(y, m) ==
    IF m = 2 THEN (IF IsLeap(y) THEN 29 ELSE 28)
    ELSE IF m \in {4, 6, 9, 11} THEN 30 ELSE 31

NoDate == Date(0, 0, 0)

\* the dates datetime.date can hold; anything else raises ValueError
IsValidDate(d) ==
    /\ d.year \in MINYEAR..MAXYEAR
    /\ d.month \in 1..12
    /\ d.day \in 1..DaysInMonth(d.year, d.month)

DateLT(a, b) ==
    \/ a.year < b.year
    \/ a.year = b.year /\ a.month < b.month
    \/ a.year = b.year /\ a.month = b.month /\ a.day < b.day

DateLE(a, b) == a = b \/ DateLT(a, b)

\* date.isoformat(): YYYY-MM-DD, zero padded
IsoFormat(d) ==
    ZeroPad(NatDigits(d.year), 4) \o <<"-">> \o ZeroPad(NatDigits(d.month), 2)
        \o <<"-">> \o ZeroPad(NatDigits(d.day), 2)

\* date.strftime("%Y-%m"): the C library does not pad the year
StrfYearMonth(d) ==
    NatDigits(d.year) \o <<"-">> \o ZeroPad(NatDigits(d.month), 2)

RECURSIVE DigitsVal(_)
DigitsVal(s) ==
    IF s = <<>> THEN 0
    ELSE 10 * DigitsVal(SubSeq(s, 1, Len(s) - 1)) + DigitVal(s[Len(s)])

\* the %m directive: 1[0-2]|0[1-9]|[1-9], which has to consume the rest
MonthDirective(s) ==
    \/ Len(s) = 1 /\ IsDigit(s[1]) /\ s[1] # "0"
    \/ Len(s) = 2 /\ s[1] = "1" /\ s[2] \in {"0", "1", "2"}
    \/ Len(s) = 2 /\ s[1] = "0" /\ IsDigit(s[2]) /\ s[2] # "0"

\* the string matches the format "%Y-%m": \d\d\d\d, "-", %m
MatchesFormat(s) ==
    /\ Len(s) \in {6, 7}
    /\ \A i \in 1..4 : IsDigit(s[i])
    /\ s[5] = "-"
    /\ MonthDirective(SubSeq(s, 6, Len(s)))

\* datetime.strptime(month, "%Y-%m").date().replace(day=1); ok = FALSE is ValueError
Strptime(s) ==
    IF MatchesFormat(s)
       /\ IsValidDate(Date(DigitsVal(SubSeq(s, 1, 4)), DigitsVal(SubSeq(s, 6, Len(s))), 1))
    THEN [ok |-> TRUE,
          date |-> Date(DigitsVal(SubSeq(s, 1, 4)), DigitsVal(SubSeq(s, 6, Len(s))), 1)]
    ELSE [ok |-> FALSE, date |-> NoDate]

\* lines 84-87: the first day of the following month; ok = FALSE is the
\* ValueError of date.replace when the year leaves MINYEAR..MAXYEAR
EndOfMonth(start) ==
    IF start.month = 12
    THEN IF IsValidDate(Date(start.year + 1, 1, 1))
         THEN [ok |-> TRUE, date |-> Date(start.year + 1, 1, 1)]
         ELSE [ok |-> FALSE, date |-> NoDate]
    ELSE [ok |-> TRUE, date |-> Date(start.year, start.month + 1, 1)]

\* a ValueError answered with the current month instead of the HTTPException
parse_month_or_current(month, today) ==
    LET parsed == IF month = Null \/ month = <<>> \/ ~Strptime(month).ok
                  THEN [ok |-> TRUE, date |-> Date(today.year, today.month, 1)]
                  ELSE Strptime(month)
        end == EndOfMonth(parsed.date)
    IN  IF ~end.ok
        THEN [status |-> 500, detail |-> "Internal Server Error",
              start |-> NoDate, end |-> NoDate]
        ELSE [status |-> 200, detail |-> "", start |-> parsed.date, end |-> end.date]

\* parse_month(month), with today = datetime.utcnow().date().  status 200: the
\* pair returned; 400: the HTTPException raised; 500: an exception no handler
\* catches, which the framework answers with a server error
parse_month(month, today) ==
    LET falsy == month = Null \/ month = <<>>
        parsed == IF falsy THEN [ok |-> TRUE, date |-> Date(today.year, today.month, 1)]
                  ELSE Strptime(month)
        end == EndOfMonth(parsed.date)
    IN  IF ~parsed.ok
        THEN [status |-> 400, detail |-> "Invalid month format. Use YYYY-MM",
              start |-> NoDate, end |-> NoDate]
        ELSE IF ~end.ok
        THEN [status |-> 500, detail |-> "Internal Server Error",
              start |-> NoDate, end |-> NoDate]
        ELSE [status |-> 200, detail |-> "", start |-> parsed.date, end |-> end.date]

----------------------------------------------------------------------------
(* Request models: ReceiptIn, AdvanceIn *)

lunch == <<"l", "u", "n", "c", "h">>
dinner == <<"d", "i", "n", "n", "e", "r">>

\* Field(pattern=r"^(lunch|dinner)$"): checked on the string as received
MealPattern(v) == v = lunch \/ v = dinner

\* Field(ge=0) in place of Field(gt=0)
AmountGe0(a) == a >= 0

\* Field(gt=0)
AmountGt0(a) == a > 0

\* the validator normalize_meal_type, which runs on a value the field
\* constraints have let through; ok = FALSE is its ValueError
normalize_meal_type(v) ==
    IF StrLower(v) \in {lunch, dinner}
    THEN [ok |-> TRUE, value |-> StrLower(v)]
    ELSE [ok |-> FALSE, value |-> v]

\* ReceiptIn(**body): ok = FALSE is the validation error answered with 422
ReceiptIn(p) ==
    IF /\ IsValidDate(p.date)
       /\ MealPattern(p.meal_type)
       /\ normalize_meal_type(p.meal_type).ok
       /\ AmountGt0(p.amount)
    THEN [ok |-> TRUE,
          value |-> [p EXCEPT !.meal_type = normalize_meal_type(p.meal_type).value]]
    ELSE [ok |-> FALSE, value |-> p]

\* AdvanceIn(**body)
AdvanceIn(p) ==
    IF IsValidDate(p.date) /\ AmountGt0(p.amount)
    THEN [ok |-> TRUE, value |-> p]
    ELSE [ok |-> FALSE, value |-> p]

----------------------------------------------------------------------------
(* The store: tables, range filters, ordering, the sum_amounts routine *)

\* the store reads the ISO text of a date column back as a date
ParseIso(s) ==
    Date(DigitsVal(SubSeq(s, 1, 4)), DigitsVal(SubSeq(s, 6, 7)), DigitsVal(SubSeq(s, 9, 10)))

\* .gt in place of .gte: the first day of the month is left out
InRangeAfterStart(row, start, end) ==
    /\ DateLT(ParseIso(IsoFormat(start)), ParseIso(row.date))
    /\ DateLT(ParseIso(row.date), ParseIso(IsoFormat(end)))

\* .gte("date", start.isoformat()).lt("date", end.isoformat())
InRange(row, start, end) ==
    /\ DateLE(ParseIso(IsoFormat(start)), ParseIso(row.date))
    /\ DateLT(ParseIso(row.date), ParseIso(IsoFormat(end)))

RECURSIVE Filter(_, _, _)
Filter(rows, start, end) ==
    IF rows = <<>> THEN <<>>
    ELSE (IF InRange(Head(rows), start, end) THEN <<Head(rows)>> ELSE <<>>)
             \o Filter(Tail(rows), start, end)

RECURSIVE FilterMeal(_, _)
FilterMeal(rows, meal) ==
    IF rows = <<>> THEN <<>>
    ELSE (IF Head(rows).meal_type = meal THEN <<Head(rows)>> ELSE <<>>)
             \o FilterMeal(Tail(rows), meal)

RECURSIVE InsertByDate(_, _)
InsertByDate(sorted, row) ==
    IF sorted = <<>> THEN <<row>>
    ELSE IF DateLT(ParseIso(row.date), ParseIso(Head(sorted).date))
         THEN <<row>> \o sorted
         ELSE <<Head(sorted)>> \o InsertByDate(Tail(sorted), row)

\* .order("date", desc=False): rows of one date keep their insertion order
RECURSIVE OrderByDate(_)
OrderByDate(rows) ==
    IF rows = <<>> THEN <<>>
    ELSE InsertByDate(OrderByDate(SubSeq(rows, 1, Len(rows) - 1)), rows[Len(rows)])

\* sum(float(x["amount"]) for x in rows)
RECURSIVE SumAmounts(_)
SumAmounts(rows) ==
    IF rows = <<>> THEN 0 ELSE Head(rows).amount + SumAmounts(Tail(rows))

\* what sb.rpc("sum_amounts", ...).execute() can come back with: an exception
\* (the routine is not installed, the call fails), or a result whose data is
\* None, an empty list, a row without a sum, or the row {sum: total}, the total
\* being null when no row is in range
RpcOutcomes == {"raise", "none", "empty", "nosum", "sum"}

RpcResult(outcome, rows) ==
    CASE outcome = "none"  -> [isList |-> FALSE, data |-> <<>>]
      [] outcome = "empty" -> [isList |-> TRUE, data |-> <<>>]
      [] outcome = "nosum" -> [isList |-> TRUE, data |-> <<[total |-> 0]>>]
      [] OTHER -> [isList |-> TRUE,
                   data |-> <<[sum |-> [null |-> rows = <<>>, val |-> SumAmounts(rows)]]>>]

\* line 188 / line 200
UsableSum(r) == r.isList /\ Len(r.data) > 0 /\ "sum" \in DOMAIN r.data[1]

\* float(r.data[0]["sum"] or 0)
SumOrZero(r) == IF r.data[1].sum.null THEN 0 ELSE r.data[1].sum.val

\* round(x, 2): one hundredth is AmountUnit \div 100 units
Round2(x) ==
    LET cent == AmountUnit \div 100
    IN  cent * ((x + (cent \div 2)) \div cent)

\* str(float) of an amount: the shortest decimal, with at least one decimal
RECURSIVE StripZeros(_)
StripZeros(s) ==
    IF Len(s) > 1 /\ s[Len(s)] = "0" THEN StripZeros(SubSeq(s, 1, Len(s) - 1)) ELSE s

FormatAmount(x) ==
    LET milli == x * (1000 \div AmountUnit)
    IN  NatDigits(milli \div 1000) \o <<".">>
            \o StripZeros(ZeroPad(NatDigits(milli % 1000), 3))

----------------------------------------------------------------------------
(* Requests, responses and the log of store operations *)

NoReq == [endpoint |-> "none", month |-> Null, today |-> NoDate, payload |-> <<>>]

\* today is recorded when parse_month reads the clock
GetReq(endpoint, month, today) ==
    [endpoint |-> endpoint, month |-> month,
     today |-> IF month = Null \/ month = <<>> THEN today ELSE NoDate,
     payload |-> <<>>]

PostReq(endpoint, payload) ==
    [endpoint |-> endpoint, month |-> Null, today |-> NoDate, payload |-> payload]

Resp(status, detail, body) == [status |-> status, detail |-> detail, body |-> body]

NoResp == Resp(0, "", <<>>)

\* the framework's answer to a body that fails validation
Unprocessable == Resp(422, "Unprocessable Entity", <<>>)

\* the framework's answer to an exception no handler catches
ServerError == Resp(500, "Internal Server Error", <<>>)

NotConfigured ==
    Resp(500, "Supabase not configured. Set SUPABASE_URL and SUPABASE_KEY environment variables.", <<>>)

Call(op, table, arg, outcome) ==
    [op |-> op, table |-> table, arg |-> arg, outcome |-> outcome]

\* a gate that never raises
require_nothing(client) == TRUE

\* require_supabase(): FALSE is the HTTPException(500) it raises
require_supabase(client) == client

----------------------------------------------------------------------------
(* Routes.  Each handler is one step from the idle service to its response; *)
(* its arguments are the request and what the store and the clock answer.   *)

Idle == req = NoReq

\* POST /api/receipt.  outcome: what the insert comes back with
create_receipt(p, outcome) ==
    LET payload == ReceiptIn(p)
        data == [payload.value EXCEPT !.date = IsoFormat(p.date)]
        row == [id |-> Len(receipts) + 1, created_at |-> Null] @@ data
    IN  /\ Idle
        /\ outcome = "ok" => Len(receipts) < MaxReceipts
        /\ req' = PostReq("create_receipt", p)
        /\ IF ~payload.ok
           THEN resp' = Unprocessable /\ calls' = <<>> /\ receipts' = receipts
           ELSE IF ~require_supabase(supabase_client)
           THEN resp' = NotConfigured /\ calls' = <<>> /\ receipts' = receipts
           ELSE /\ calls' = <<Call("insert", "receipts", data, outcome)>>
                /\ receipts' = IF outcome = "ok" THEN Append(receipts, row) ELSE receipts
                /\ resp' = CASE outcome = "ok" -> Resp(200, "", row)
                             [] outcome = "empty" -> Resp(500, "Failed to insert receipt", <<>>)
                             [] OTHER -> ServerError
        /\ UNCHANGED <<supabase_client, advances>>

\* POST /api/advance
create_advance(p, outcome) ==
    LET payload == AdvanceIn(p)
        data == [payload.value EXCEPT !.date = IsoFormat(p.date)]
        row == [id |-> Len(advances) + 1, created_at |-> Null] @@ data
    IN  /\ Idle
        /\ outcome = "ok" => Len(advances) < MaxAdvances
        /\ req' = PostReq("create_advance", p)
        /\ IF ~payload.ok
           THEN resp' = Unprocessable /\ calls' = <<>> /\ advances' = advances
           ELSE IF ~require_supabase(supabase_client)
           THEN resp' = NotConfigured /\ calls' = <<>> /\ advances' = advances
           ELSE /\ calls' = <<Call("insert", "advances", data, outcome)>>
                /\ advances' = IF outcome = "ok" THEN Append(advances, row) ELSE advances
                /\ resp' = CASE outcome = "ok" -> Resp(200, "", row)
                             [] outcome = "empty" -> Resp(500, "Failed to insert advance", <<>>)
                             [] OTHER -> ServerError
        /\ UNCHANGED <<supabase_client, receipts>>

\* GET /api/receipts.  raises: the select raises
list_receipts(month, today, raises) ==
    LET range == parse_month(month, today)
    IN  /\ Idle
        /\ req' = GetReq("list_receipts", month, today)
        /\ IF ~require_supabase(supabase_client)
           THEN resp' = NotConfigured /\ calls' = <<>>
           ELSE IF range.status # 200
           THEN resp' = Resp(range.status, range.detail, <<>>) /\ calls' = <<>>
           ELSE IF raises
           THEN resp' = ServerError /\ calls' = <<Call("select", "receipts", <<>>, "raise")>>
           ELSE /\ calls' = <<Call("select", "receipts", <<>>, "ok")>>
                /\ resp' = Resp(200, "", OrderByDate(Filter(receipts, range.start, range.end)))
        /\ UNCHANGED <<supabase_client, receipts, advances>>

\* GET /api/advances
list_advances(month, today, raises) ==
    LET range == parse_month(month, today)
    IN  /\ Idle
        /\ req' = GetReq("list_advances", month, today)
        /\ IF ~require_supabase(supabase_client)
           THEN resp' = NotConfigured /\ calls' = <<>>
           ELSE IF range.status # 200
           THEN resp' = Resp(range.status, range.detail, <<>>) /\ calls' = <<>>
           ELSE IF raises
           THEN resp' = ServerError /\ calls' = <<Call("select", "advances", <<>>, "raise")>>
           ELSE /\ calls' = <<Call("select", "advances", <<>>, "ok")>>
                /\ resp' = Resp(200, "", OrderByDate(Filter(advances, range.start, range.end)))
        /\ UNCHANGED <<supabase_client, receipts, advances>>

\* lines 188-198 and 200-210: the total of one table, from the routine's
\* result when it is usable and from the rows fetched otherwise
TableTotal(r, rows) == IF UsableSum(r) THEN SumOrZero(r) ELSE SumAmounts(rows)

\* lines 233-240
SummaryBody(start, receipts_sum, advances_sum, lunch_total, dinner_total) ==
    [month |-> StrfYearMonth(start),
     receipts_total |-> Round2(receipts_sum),
     advances_total |-> Round2(advances_sum),
     lunch_total |-> Round2(lunch_total),
     dinner_total |-> Round2(dinner_total),
     net |-> Round2(receipts_sum - advances_sum)]

\* GET /api/summary.  rpcR, rpcA: what the two sum_amounts calls come back
\* with; failAt: which of the selects issued raises (0: none)
monthly_summary(month, today, rpcR, rpcA, failAt) ==
    LET range == parse_month(month, today)
        rRows == Filter(receipts, range.start, range.end)
        aRows == Filter(advances, range.start, range.end)
        r == RpcResult(rpcR, rRows)
        a == RpcResult(rpcA, aRows)
        rpcs == <<Call("rpc", "receipts", <<>>, rpcR), Call("rpc", "advances", <<>>, rpcA)>>
        selects ==
            (IF UsableSum(r) THEN <<>> ELSE <<Call("select", "receipts", <<>>, "ok")>>)
            \o (IF UsableSum(a) THEN <<>> ELSE <<Call("select", "advances", <<>>, "ok")>>)
            \o <<Call("select", "receipts", lunch, "ok"),
                 Call("select", "receipts", dinner, "ok")>>
        raised == rpcR = "raise" \/ rpcA = "raise" \/ failAt \in 1..Len(selects)
        issued ==
            IF rpcR = "raise" THEN SubSeq(rpcs, 1, 1)
            ELSE IF rpcA = "raise" THEN rpcs
            ELSE IF failAt \in 1..Len(selects)
            THEN rpcs \o SubSeq(selects, 1, failAt - 1)
                     \o <<[selects[failAt] EXCEPT !.outcome = "raise"]>>
            ELSE rpcs \o selects
    IN  /\ Idle
        /\ req' = GetReq("monthly_summary", month, today)
        /\ IF ~require_supabase(supabase_client)
           THEN resp' = NotConfigured /\ calls' = <<>>
           ELSE IF range.status # 200
           THEN resp' = Resp(range.status, range.detail, <<>>) /\ calls' = <<>>
           ELSE IF raised
           THEN resp' = ServerError /\ calls' = issued
           ELSE /\ calls' = issued
                /\ resp' = Resp(200, "",
                       SummaryBody(range.start, TableTotal(r, rRows), TableTotal(a, aRows),
                                   SumAmounts(FilterMeal(rRows, lunch)),
                                   SumAmounts(FilterMeal(rRows, dinner))))
        /\ UNCHANGED <<supabase_client, receipts, advances>>

\* .select("date,meal_type,amount,merchant,note"): the row cut to the columns asked for
Project(row, columns) == [k \in columns |-> row[k]]

ProjectAll(rows, columns) == [i \in 1..Len(rows) |-> Project(rows[i], columns)]

\* an f-string field {v}: None is written out as the word None
Format(v) == IF v = Null THEN <<"N", "o", "n", "e">> ELSE v

\* {row.get(key, '')} of a text column
GetText(row, key) == IF key \in DOMAIN row THEN Format(row[key]) ELSE <<>>

\* {row.get('amount', '')}
GetAmount(row) == IF "amount" \in DOMAIN row THEN FormatAmount(row.amount) ELSE <<>>

Comma == <<",">>

Header ==
    <<"t", "y", "p", "e", ",", "d", "a", "t", "e", ",", "m", "e", "a", "l", ",",
      "a", "m", "o", "u", "n", "t", ",", "m", "e", "r", "c", "h", "a", "n", "t", ",",
      "n", "o", "t", "e">>

\* line 270
ReceiptLine(row) ==
    <<"r", "e", "c", "e", "i", "p", "t">> \o Comma \o GetText(row, "date") \o Comma
        \o GetText(row, "meal_type") \o Comma \o GetAmount(row) \o Comma
        \o GetText(row, "merchant") \o Comma \o GetText(row, "note")

\* line 274
AdvanceLine(row) ==
    <<"a", "d", "v", "a", "n", "c", "e">> \o Comma \o GetText(row, "date") \o Comma
        \o Comma \o GetAmount(row) \o Comma \o Comma \o GetText(row, "note")

\* lines 266-277
CsvText(r, a) ==
    LET lines == <<Header>> \o [i \in 1..Len(r) |-> ReceiptLine(r[i])]
                     \o [i \in 1..Len(a) |-> AdvanceLine(a[i])]
    IN  Join(lines, <<"\n">>) \o <<"\n">>

\* GET /api/export.csv.  failAt: which of the two selects raises (0: none)
export_csv(month, today, failAt) ==
    LET range == parse_month(month, today)
        r == ProjectAll(OrderByDate(Filter(receipts, range.start, range.end)),
                        {"date", "meal_type", "amount", "merchant", "note"})
        a == ProjectAll(OrderByDate(Filter(advances, range.start, range.end)),
                        {"date", "amount", "note"})
        selects == <<Call("select", "receipts", <<>>, "ok"),
                     Call("select", "advances", <<>>, "ok")>>
    IN  /\ Idle
        /\ req' = GetReq("export_csv", month, today)
        /\ IF ~require_supabase(supabase_client)
           THEN resp' = NotConfigured /\ calls' = <<>>
           ELSE IF range.status # 200
           THEN resp' = Resp(range.status, range.detail, <<>>) /\ calls' = <<>>
           ELSE IF failAt # 0
           THEN /\ resp' = ServerError
                /\ calls' = SubSeq(selects, 1, failAt - 1)
                                \o <<[selects[failAt] EXCEPT !.outcome = "raise"]>>
           ELSE /\ calls' = selects
                /\ resp' = Resp(200, "", CsvText(r, a))
        /\ UNCHANGED <<supabase_client, receipts, advances>>

\* the response is sent; nothing of the request outlives it
Respond ==
    /\ ~Idle
    /\ req' = NoReq
    /\ calls' = <<>>
    /\ resp' = NoResp
    /\ UNCHANGED <<supabase_client, receipts, advances>>

----------------------------------------------------------------------------
(* parse_month on its own: the call and its result *)

parse_month_call ==
    LET range == parse_month(req.month, req.today)
    IN  /\ req.endpoint = "parse_month"
        /\ resp = NoResp
        /\ resp' = Resp(range.status, range.detail, <<range.start, range.end>>)
        /\ UNCHANGED <<supabase_client, receipts, advances, req, calls>>

----------------------------------------------------------------------------
(* Inputs *)

LUNCH == <<"L", "U", "N", "C", "H">>
tea == <<"t", "e", "a">>

MealInputs == {lunch, dinner, LUNCH, tea}

Amounts == {7 * k : k \in 0..MaxAmountSteps}

PayloadDates == {Date(2024, 2, 29), Date(2024, 3, 1), Date(2023, 2, 29)}

Merchants == {Null, <<"K">>}

Notes == {Null, <<"n", "\n">>}

ReceiptPayloads ==
    [date : PayloadDates, meal_type : MealInputs, amount : Amounts,
     merchant : Merchants, note : {Null}, image_url : {Null}]

AdvancePayloads == [date : PayloadDates, amount : Amounts, note : Notes]

MonthInputs ==
    {Null,
     <<"2", "0", "2", "4", "-", "0", "2">>,
     <<"9", "9", "9", "9", "-", "1", "2">>,
     <<"2", "0", "2", "4", "-", "1", "3">>}

Todays == {Date(2024, 3, 1)}

InsertOutcomes == {"ok", "empty", "raise"}

\* month strings of every shape: a year part, a separator, a month part
YearParts ==
    {<<"0", "0", "0", "0">>, <<"0", "0", "0", "1">>, <<"2", "0", "2", "3">>,
     <<"2", "0", "2", "4">>, <<"9", "9", "9", "8">>, <<"9", "9", "9", "9">>,
     <<"2", "0", "2">>, <<"2", "0", "2", "4", "0">>, <<"y", "y", "y", "y">>, <<>>}

Separators == {<<"-">>, <<"/">>, <<>>}

MonthParts ==
    {NatDigits(m) : m \in 0..13} \cup {ZeroPad(NatDigits(m), 2) : m \in 0..9}
        \cup {<<>>, <<"0", "1", "2">>, <<"1", "x">>, <<"0", "2", " ">>}

MonthStrings ==
    {Null} \cup {y \o sep \o m : y \in YearParts, sep \in Separators, m \in MonthParts}

ClockReadings == {Date(2024, 2, 15), Date(2024, 12, 31), Date(9999, 12, 31)}

----------------------------------------------------------------------------
(* The service *)

Init ==
    /\ supabase_client \in BOOLEAN
    /\ receipts = <<>>
    /\ advances = <<>>
    /\ req = NoReq
    /\ calls = <<>>
    /\ resp = NoResp

Next ==
    \/ \E p \in ReceiptPayloads, outcome \in InsertOutcomes : create_receipt(p, outcome)
    \/ \E p \in AdvancePayloads, outcome \in InsertOutcomes : create_advance(p, outcome)
    \/ \E month \in MonthInputs, today \in Todays, raises \in BOOLEAN :
           list_receipts(month, today, raises)
    \/ \E month \in MonthInputs, today \in Todays, raises \in BOOLEAN :
           list_advances(month, today, raises)
    \/ \E month \in MonthInputs, today \in Todays,
          rpcR \in RpcOutcomes, rpcA \in RpcOutcomes, failAt \in 0..4 :
           monthly_summary(month, today, rpcR, rpcA, failAt)
    \/ \E month \in MonthInputs, today \in Todays, failAt \in 0..2 :
           export_csv(month, today, failAt)
    \/ Respond

Spec == Init /\ [][Next]_vars

\* the month-scoped endpoints over month strings of every shape, the store empty
NextMonths ==
    \/ \E month \in MonthStrings, today \in Todays, raises \in BOOLEAN :
           list_receipts(month, today, raises)
    \/ \E month \in MonthStrings, today \in Todays, raises \in BOOLEAN :
           list_advances(month, today, raises)
    \/ \E month \in MonthStrings, today \in Todays, rpcR \in {"raise", "sum"}, failAt \in 0..1 :
           monthly_summary(month, today, rpcR, "empty", failAt)
    \/ \E month \in MonthStrings, today \in Todays, failAt \in 0..2 :
           export_csv(month, today, failAt)
    \/ Respond

SpecMonths == Init /\ [][NextMonths]_vars

\* the service started without its configuration: create_client never ran
InitUnconfigured ==
    /\ supabase_client = FALSE
    /\ receipts = <<>>
    /\ advances = <<>>
    /\ req = NoReq
    /\ calls = <<>>
    /\ resp = NoResp

NextUnconfigured == Next \/ NextMonths

SpecUnconfigured == InitUnconfigured /\ [][NextUnconfigured]_vars

\* parse_month applied to month strings of every shape
InitParse ==
    /\ supabase_client = TRUE
    /\ receipts = <<>>
    /\ advances = <<>>
    /\ req \in {[GetReq("parse_month", month, today) EXCEPT !.today = today] :
                   month \in MonthStrings, today \in ClockReadings}
    /\ calls = <<>>
    /\ resp = NoResp

NextParse == parse_month_call

SpecParse == InitParse /\ [][NextParse]_vars

----------------------------------------------------------------------------
(* Properties *)

MonthEndpoints == {"list_receipts", "list_advances", "monthly_summary", "export_csv"}

ClientError == 400..499

IsDigits(s) == \A i \in 1..Len(s) : IsDigit(s[i])

\* four digits, a dash, two digits
HasFormYYYYMM(s) ==
    Len(s) = 7 /\ IsDigits(SubSeq(s, 1, 4)) /\ s[5] = "-" /\ IsDigits(SubSeq(s, 6, 7))

\* four digits, a dash, one digit
HasFormYYYYM(s) ==
    Len(s) = 6 /\ IsDigits(SubSeq(s, 1, 4)) /\ s[5] = "-" /\ IsDigit(s[6])

\* the handler of the request has been entered: a POST body has passed validation
HandlerRan ==
    \/ req.endpoint \in MonthEndpoints
    \/ req.endpoint = "create_receipt" /\ ReceiptIn(req.payload).ok
    \/ req.endpoint = "create_advance" /\ AdvanceIn(req.payload).ok

\* the range a month-scoped request resolves to
ReqRange == parse_month(req.month, req.today)

RowsInRange(rows) == Filter(rows, ReqRange.start, ReqRange.end)

\* C1: POST /api/receipt accepts a meal_type that is lunch or dinner after
\* lowercasing and sends the store the lowercased value; it rejects with a
\* client error only a meal_type that is neither.
C1_LowercasedMealAccepted ==
    (/\ req.endpoint = "create_receipt"
     /\ IsValidDate(req.payload.date)
     /\ req.payload.amount > 0)
    => IF StrLower(req.payload.meal_type) \in {lunch, dinner}
       THEN /\ resp.status \notin ClientError
            /\ supabase_client =>
                   /\ Len(calls) = 1
                   /\ calls[1].op = "insert"
                   /\ calls[1].arg.meal_type = StrLower(req.payload.meal_type)
       ELSE resp.status \in ClientError

\* C2 as stated: a month string that does not have the form YYYY-MM gets 400
\* from each month-scoped endpoint, whether or not the store client is set, and
\* no store query is issued.
C2_MalformedMonthAlways400 ==
    (/\ req.endpoint \in MonthEndpoints
     /\ req.month # Null
     /\ ~HasFormYYYYMM(req.month))
    => (resp.status = 400 /\ calls = <<>>)

\* C2 as amended: a non-empty month string that has neither the form YYYY-MM
\* nor the form YYYY-M gets 400 from each month-scoped endpoint when the store
\* client is set and 500 when it is unset; no store query is issued either way.
C2_MalformedMonthRejected ==
    (/\ req.endpoint \in MonthEndpoints
     /\ req.month \notin {Null, <<>>}
     /\ ~HasFormYYYYMM(req.month)
     /\ ~HasFormYYYYM(req.month))
    => /\ calls = <<>>
       /\ resp.status = IF supabase_client THEN 400 ELSE 500

C2_Witness ==
    /\ supabase_client
    /\ req.endpoint = "export_csv"
    /\ req.month = <<"2", "0", "2", "4", "/", "0", "2">>
    /\ resp.status = 400
    /\ calls = <<>>

\* C3: in GET /api/summary, when sum_amounts raises or returns no usable
\* result for a table (and no select fails), the request succeeds and that
\* table's total is the in-process sum of the amounts of its rows in range.
C3_FallbackWhenRoutineUnusable ==
    LET unusable(i) == calls[i].op = "rpc" /\ calls[i].outcome # "sum"
        rows(table) == IF table = "receipts" THEN receipts ELSE advances
        total(table) == IF table = "receipts" THEN resp.body.receipts_total
                        ELSE resp.body.advances_total
    IN  (/\ req.endpoint = "monthly_summary"
         /\ \E i \in 1..Len(calls) : unusable(i)
         /\ \A i \in 1..Len(calls) : calls[i].op = "select" => calls[i].outcome = "ok")
        => /\ resp.status = 200
           /\ \A i \in 1..Len(calls) :
                  unusable(i) =>
                      total(calls[i].table) = Round2(SumAmounts(RowsInRange(rows(calls[i].table))))

\* C4: with the store client unset, each of the six data-touching endpoints,
\* once its handler runs, answers 500 and performs no store operation.
C4_UnsetClientNoStoreOperation ==
    (~supabase_client /\ HandlerRan)
    => /\ resp.status = 500
       /\ calls = <<>>
       /\ receipts = <<>>
       /\ advances = <<>>

C4_Witness ==
    /\ ~supabase_client
    /\ req.endpoint = "create_receipt"
    /\ ReceiptIn(req.payload).ok
    /\ resp = NotConfigured
    /\ calls = <<>>

\* C5: the net of a summary equals round(receipts_total - advances_total, 2)
\* taken over the rounded totals returned in the same response.
C5_NetOfReturnedTotals ==
    (req.endpoint = "monthly_summary" /\ resp.status = 200)
    => resp.body.net = Round2(resp.body.receipts_total - resp.body.advances_total)

\* a month string YYYY-MM of a year and a month the calendar has
ValidMonthString(s) ==
    /\ HasFormYYYYMM(s)
    /\ DigitsVal(SubSeq(s, 1, 4)) \in MINYEAR..MAXYEAR
    /\ DigitsVal(SubSeq(s, 6, 7)) \in 1..12

\* C6: for every valid month string YYYY-MM, parse_month returns start = the
\* first day of month M of year Y and end = the first day of the following
\* month (1 January of Y+1 for December), so that start < end and [start, end)
\* holds exactly the days of that month.
C6_MonthRange ==
    LET Y == DigitsVal(SubSeq(req.month, 1, 4))
        M == DigitsVal(SubSeq(req.month, 6, 7))
        start == resp.body[1]
        end == resp.body[2]
        days == {d \in {Date(y, m, n) : y \in {Y - 1, Y, Y + 1}, m \in 1..12, n \in 1..31} :
                     d.day <= DaysInMonth(d.year, d.month)}
    IN  (/\ req.endpoint = "parse_month"
         /\ resp # NoResp
         /\ ValidMonthString(req.month))
        => /\ resp.status = 200
           /\ start = Date(Y, M, 1)
           /\ end = IF M = 12 THEN Date(Y + 1, 1, 1) ELSE Date(Y, M + 1, 1)
           /\ DateLT(start, end)
           /\ \A d \in days :
                  (DateLE(start, d) /\ DateLT(d, end))
                      <=> (d.year = Y /\ d.month = M /\ d.day \in 1..DaysInMonth(Y, M))

\* C7: every row inserted into receipts or advances has amount > 0, every
\* inserted receipt has meal_type lunch or dinner, and a payload that fails
\* validation gets a client error and reaches no store insert.
C7_OnlyValidRowsInserted ==
    /\ \A i \in 1..Len(receipts) :
           receipts[i].amount > 0 /\ receipts[i].meal_type \in {lunch, dinner}
    /\ \A i \in 1..Len(advances) : advances[i].amount > 0
    /\ \A i \in 1..Len(calls) :
           calls[i].op = "insert" =>
               /\ calls[i].arg.amount > 0
               /\ calls[i].table = "receipts" => calls[i].arg.meal_type \in {lunch, dinner}
    /\ (/\ req.endpoint \in {"create_receipt", "create_advance"}
        /\ \/ req.payload.amount <= 0
           \/ ~IsValidDate(req.payload.date)
           \/ /\ req.endpoint = "create_receipt"
              /\ StrLower(req.payload.meal_type) \notin {lunch, dinner})
       => (resp.status \in ClientError /\ calls = <<>>)

C7_Witness ==
    /\ Len(receipts) >= 1
    /\ Len(advances) >= 1
    /\ req.endpoint = "create_receipt"
    /\ req.payload.amount = 0
    /\ req.payload.meal_type = lunch
    /\ IsValidDate(req.payload.date)
    /\ resp.status = 422
    /\ calls = <<>>

\* a field as C8 has it: a missing value, absent or null, is the empty string
FieldOrEmpty(row, key) ==
    IF key \in DOMAIN row /\ row[key] # Null THEN row[key] ELSE <<>>

\* C8: in the export every field whose value is missing, absent or null, is
\* rendered as the empty string, and every advance row has empty meal and
\* merchant columns.
C8_MissingFieldsEmpty ==
    LET r == OrderByDate(RowsInRange(receipts))
        a == OrderByDate(RowsInRange(advances))
        receiptLine(row) ==
            <<"r", "e", "c", "e", "i", "p", "t">> \o Comma \o FieldOrEmpty(row, "date")
                \o Comma \o FieldOrEmpty(row, "meal_type") \o Comma \o FormatAmount(row.amount)
                \o Comma \o FieldOrEmpty(row, "merchant") \o Comma \o FieldOrEmpty(row, "note")
        advanceLine(row) ==
            <<"a", "d", "v", "a", "n", "c", "e">> \o Comma \o FieldOrEmpty(row, "date")
                \o Comma \o Comma \o FormatAmount(row.amount) \o Comma \o Comma
                \o FieldOrEmpty(row, "note")
        lines == <<Header>> \o [i \in 1..Len(r) |-> receiptLine(r[i])]
                     \o [i \in 1..Len(a) |-> advanceLine(a[i])]
    IN  (req.endpoint = "export_csv" /\ resp.status = 200)
        => resp.body = Join(lines, <<"\n">>) \o <<"\n">>

\* the part of an amount in whole hundredths
WholeCents(x) == (AmountUnit \div 100) * (x \div (AmountUnit \div 100))

MealTotal(meal) ==
    IF meal = lunch THEN resp.body.lunch_total ELSE resp.body.dinner_total

\* the stored receipts whose date lies in the month the request names
ReceiptsOfMonth ==
    {i \in 1..Len(receipts) :
        /\ ParseIso(receipts[i].date).year = ReqRange.start.year
        /\ ParseIso(receipts[i].date).month = ReqRange.start.month}

\* C9 as stated: once a receipt of meal type lunch (dinner), amount x and a date
\* in month m is stored, every successful summary of m has lunch_total
\* (dinner_total) >= x.
C9_MealTotalAtLeastAmount ==
    (req.endpoint = "monthly_summary" /\ resp.status = 200)
    => \A i \in ReceiptsOfMonth :
           MealTotal(receipts[i].meal_type) >= receipts[i].amount

\* C9 as amended: once a receipt of meal type lunch (dinner), amount x and a
\* date in month m is stored, every successful summary of m has lunch_total
\* (dinner_total) >= x cut to two decimal places; so >= x when x has no more
\* than two.
C9_MealTotalAtLeastWholeCents ==
    (req.endpoint = "monthly_summary" /\ resp.status = 200)
    => \A i \in ReceiptsOfMonth :
           MealTotal(receipts[i].meal_type) >= WholeCents(receipts[i].amount)

C9_Witness ==
    /\ req.endpoint = "monthly_summary"
    /\ resp.status = 200
    /\ \E i \in ReceiptsOfMonth :
           /\ receipts[i].meal_type = lunch
           /\ WholeCents(receipts[i].amount) > 0
           /\ resp.body.lunch_total >= WholeCents(receipts[i].amount)
           /\ resp.body.lunch_total < receipts[i].amount

\* the lines of a text each of whose lines ends with a newline
CountLines(text) == Cardinality({i \in 1..Len(text) : text[i] = "\n"})

\* C10: the export has one header line, then one line per receipt in range,
\* then one per advance in range, whatever the merchant and note fields hold.
C10_OneLinePerRow ==
    (req.endpoint = "export_csv" /\ resp.status = 200)
    => CountLines(resp.body)
           = 1 + Len(RowsInRange(receipts)) + Len(RowsInRange(advances))

====
